---- MODULE Spec2Model ----
(***************************************************************************)
(* lsm-perf.py: boot each kernel in a qemu VM, run a workload in it over   *)
(* SSH, write one CSV row of samples per (kernel, round).                  *)
(*                                                                         *)
(* Text (file lines, workload output, CSV fields) is a sequence of atoms,  *)
(* one atom per character; a fixed word of the source ('kernel path',      *)
(* 'run ') is kept as one atom, since nothing looks inside it.             *)
(***************************************************************************)
EXTENDS Integers, Sequences, FiniteSets, TLC

\* ---- configuration (module constants of lsm-perf.py, scaled down) ----
ROUNDS == 2
REPETITIONS_PER_ROUND == 2
WARMUP_RUNS == 2
\* the retry budget `c = 5` of VM.__enter__
MaxAttempts == 5
\* args.kernels holds 1..MaxKernels kernels (argparse nargs='+')
MaxKernels == 2

\* ---- text ----
DigitChars == <<"0", "1", "2", "3", "4", "5", "6", "7", "8", "9">>

Whitespace == {" ", "\n", "\t", "\r"}

IsDigit(ch) == \E d \in 1..10 : DigitChars[d] = ch

DigitVal(ch) == (CHOOSE d \in 1..10 : DigitChars[d] = ch) - 1

\* str(n) for a natural number
RECURSIVE NatToStr(_)
NatToStr(n) ==
    IF n < 10 THEN <<DigitChars[n + 1]>>
    ELSE NatToStr(n \div 10) \o <<DigitChars[(n % 10) + 1]>>

\* str(n) for an int
IntToStr(n) == IF n < 0 THEN <<"-">> \o NatToStr(0 - n) ELSE NatToStr(n)

\* str.strip(): drop leading and trailing whitespace
RECURSIVE LStrip(_)
LStrip(s) ==
    IF s # <<>> /\ Head(s) \in Whitespace THEN LStrip(Tail(s)) ELSE s

RECURSIVE RStrip(_)
RStrip(s) ==
    IF s # <<>> /\ s[Len(s)] \in Whitespace
    THEN RStrip(SubSeq(s, 1, Len(s) - 1)) ELSE s

Strip(s) == RStrip(LStrip(s))

RECURSIVE DigitsVal(_, _)
DigitsVal(s, acc) ==
    IF s = <<>> THEN acc ELSE DigitsVal(Tail(s), 10 * acc + DigitVal(Head(s)))

AllDigits(s) == s # <<>> /\ \A k \in 1..Len(s) : IsDigit(s[k])

\* int(s): optional sign, then decimal digits; anything else is a ValueError
ParseInt(s) ==
    LET t == Strip(s)
        signed == t # <<>> /\ Head(t) \in {"-", "+"}
        body == IF signed THEN Tail(t) ELSE t
    IN  IF AllDigits(body)
        THEN [ok |-> TRUE,
              val |-> IF signed /\ Head(t) = "-"
                      THEN 0 - DigitsVal(body, 0) ELSE DigitsVal(body, 0)]
        ELSE [ok |-> FALSE, val |-> 0]

\* ','.join(fields)
RECURSIVE Join(_)
Join(fields) ==
    IF fields = <<>> THEN <<>>
    ELSE IF Len(fields) = 1 THEN fields[1]
    ELSE fields[1] \o <<",">> \o Join(Tail(fields))

\* the fields of a written line, as a CSV reader splits them: the line
\* without its newline, cut at every ","
RECURSIVE SplitAcc(_, _, _)
SplitAcc(s, cur, acc) ==
    IF s = <<>> THEN Append(acc, cur)
    ELSE IF Head(s) = "," THEN SplitAcc(Tail(s), <<>>, Append(acc, cur))
    ELSE SplitAcc(Tail(s), Append(cur, Head(s)), acc)

Fields(line) ==
    SplitAcc(IF line # <<>> /\ line[Len(line)] = "\n"
             THEN SubSeq(line, 1, Len(line) - 1) ELSE line, <<>>, <<>>)

\* ---- inputs ----
\* the names the module binds at import (its def/class statements)
ModuleGlobals ==
    {"main", "evaluate_kernel", "VM", "construct_qemu_args", "print_eta",
     "init_output_file", "write_results_to_file", "parse_args"}

\* the name main's loop calls
CalledName == "evaluating_kernel"

\* main runs in the module's own namespace, where CalledName is unbound, or
\* in one where a caller has bound it to evaluate_kernel (the only way the
\* rest of the loop body runs at all)
Namespaces == {ModuleGlobals, ModuleGlobals \cup {CalledName}}

\* kernel.name of the k-th kernel of args.kernels
KernelPath(k) == <<"k">> \o NatToStr(k)

KernelLists == {[k \in 1..n |-> KernelPath(k)] : n \in 1..MaxKernels}

\* the workload is an opaque program; each behaviour gives the line it
\* prints on its n-th invocation inside one VM
Workloads ==
    {"steady", "counter", "padded", "negative", "garbage", "late_garbage",
     "silent"}

Output(wl, n) ==
    CASE wl = "steady" -> <<"7", "\n">>
      [] wl = "counter" -> IntToStr(n) \o <<"\n">>
      [] wl = "padded" -> <<" ", "1", "2", " ", "\n">>
      [] wl = "negative" -> <<"-", "3", "\n">>
      [] wl = "garbage" -> <<"x", "\n">>
      [] wl = "late_garbage" ->
            IF n <= WARMUP_RUNS + 1 THEN IntToStr(n) \o <<"\n">>
            ELSE <<"x", "\n">>
      [] OTHER -> <<>>

\* what SshMachine(...) can raise that VM.__enter__ catches
CommsErrors == {"EOFError", "SSHCommsError"}

\* ---- state ----
VARIABLES
    pc,            \* next statement of the single thread of control
    namespace,     \* names bound where main runs
    kernels,       \* args.kernels (their .name)
    workload,      \* behaviour of the program at args.workload
    out,           \* args.out: lines written, lines flushed, close() calls
    round,         \* main: loop variable
    kidx,          \* main: position in args.kernels
    main_results,  \* main: value returned by the per-kernel call
    exc,           \* exception propagating in main's frame ("None" if none)
    pend,          \* exception raised in the with body, held during __exit__
    interrupted,   \* a KeyboardInterrupt has been delivered
    results,       \* evaluate_kernel: results
    w,             \* evaluate_kernel: warmup runs done
    i,             \* evaluate_kernel: measured repetitions done
    runlog,        \* work_cmd() invocations of the current VM, in order
    stats,         \* data last given to statistics.mean / stdev
    ssh,           \* self.ssh of the current VM
    c,             \* VM.__enter__: c
    attempts,      \* SshMachine(...) calls made for the current VM
    lastErr,       \* last exception caught by VM.__enter__
    vmlog          \* one entry per constructed VM: process, session, __exit__ calls

vars ==
    <<pc, namespace, kernels, workload, out, round, kidx, main_results, exc,
      pend, interrupted, results, w, i, runlog, stats, ssh, c, attempts,
      lastErr, vmlog>>

inputVars == <<namespace, kernels, workload>>
mainVars == <<round, kidx, main_results>>
ekVars == <<results, w, i, runlog, stats>>
vmVars == <<ssh, c, attempts, lastErr, vmlog>>

MainTry == {"init_output_file", "round_loop", "kernel_loop", "call", "write_results"}
EkPre == {"vm_init", "enter", "enter_sleep", "enter_dial"}
WithBody == {"scp_to", "warmup", "measure", "delete"}
ExitSteps == {"exit_close", "exit_clear", "exit_quit", "exit_terminate", "exit_sleep"}
EkPost == {"stats"}
Final == {"main_return", "main_raised"}

Init ==
    /\ pc = "init_output_file"
    /\ namespace \in Namespaces
    /\ kernels \in KernelLists
    /\ workload \in Workloads
    /\ out = [lines |-> <<>>, flushed |-> 0, closes |-> 0]
    /\ round = 0
    /\ kidx = 0
    /\ main_results = <<>>
    /\ exc = "None"
    /\ pend = "None"
    /\ interrupted = FALSE
    /\ results = <<>>
    /\ w = 0
    /\ i = 0
    /\ runlog = <<>>
    /\ stats = <<>>
    /\ ssh = "None"
    /\ c = 0
    /\ attempts = 0
    /\ lastErr = "None"
    /\ vmlog = <<>>

\* ---- exceptions ----
\* variant of Handler: main's try statement without its except clause
HandlerFinallyOnly(e) == "main_finally"

\* main's try statement: `except KeyboardInterrupt` takes the interrupt,
\* anything else goes through `finally` and out of main
Handler(e) == IF e = "KeyboardInterrupt" THEN "main_except" ELSE "main_finally"

\* variant of Raise: the body is not guarded by the with statement, an
\* exception goes straight to main
RaiseSkipsExit(e) ==
    /\ pc' = Handler(e)
    /\ pend' = "None"
    /\ exc' = e

\* an exception e raised by the statement at pc: inside the with body
\* VM.__exit__ runs first, holding e; anywhere else (before the body is
\* entered, inside __exit__, after the with statement) it goes to main
Raise(e) ==
    IF pc \in WithBody
    THEN /\ pc' = "exit_close"
         /\ pend' = e
         /\ exc' = exc
    ELSE /\ pc' = Handler(e)
         /\ pend' = "None"
         /\ exc' = e

NoRaise(next) ==
    /\ pc' = next
    /\ UNCHANGED <<exc, pend>>

\* ---- output file ----
\* init_output_file: the header line
HeaderLine ==
    Join(<<<<"kernel path">>, <<"round">>>>
         \o [k \in 1..REPETITIONS_PER_ROUND |-> <<"run ">> \o NatToStr(k - 1)])
    \o <<"\n">>

\* write_results_to_file: the line of one (kernel, round)
RowLine(kernel_path, rnd, res) ==
    Join(<<kernel_path, IntToStr(rnd)>> \o [k \in 1..Len(res) |-> IntToStr(res[k])])
    \o <<"\n">>

Write(f, line) == [f EXCEPT !.lines = Append(@, line)]
Flush(f) == [f EXCEPT !.flushed = Len(f.lines)]

\* variant of Close: the file is left open
CloseNever(f) == f

Close(f) == [Flush(f) EXCEPT !.closes = @ + 1]

\* ---- main ----
InitOutputFile ==
    /\ pc = "init_output_file"
    /\ out' = Write(out, HeaderLine)
    /\ NoRaise("round_loop")
    /\ UNCHANGED <<inputVars, mainVars, interrupted, ekVars, vmVars>>

\* for round in range(ROUNDS)
RoundLoop ==
    /\ pc = "round_loop"
    /\ IF round < ROUNDS
       THEN /\ kidx' = 1
            /\ NoRaise("kernel_loop")
       ELSE /\ kidx' = kidx
            /\ NoRaise("main_finally")
    /\ UNCHANGED <<inputVars, out, round, main_results, interrupted, ekVars, vmVars>>

\* for kernel in args.kernels
KernelLoop ==
    /\ pc = "kernel_loop"
    /\ IF kidx <= Len(kernels)
       THEN /\ round' = round
            /\ NoRaise("call")
       ELSE /\ round' = round + 1
            /\ NoRaise("round_loop")
    /\ UNCHANGED <<inputVars, out, kidx, main_results, interrupted, ekVars, vmVars>>

\* results = evaluating_kernel(...): the name is looked up when the call
\* is made; where it is bound, evaluate_kernel starts (results = [])
Call ==
    /\ pc = "call"
    /\ IF CalledName \in namespace
       THEN /\ results' = <<>>
            /\ w' = 0
            /\ i' = 0
            /\ runlog' = <<>>
            /\ NoRaise("vm_init")
       ELSE /\ UNCHANGED <<results, w, i, runlog>>
            /\ Raise("NameError")
    /\ UNCHANGED <<inputVars, out, mainVars, interrupted, stats, vmVars>>

\* variant of WriteRow: the row is written and left in the buffer
WriteRowNoFlush(f, line) == Write(f, line)

\* write_results_to_file: file.write(...), file.flush()
WriteRow(f, line) == Flush(Write(f, line))

WriteResults ==
    /\ pc = "write_results"
    /\ out' = WriteRow(out, RowLine(kernels[kidx], round, main_results))
    /\ kidx' = kidx + 1
    /\ NoRaise("kernel_loop")
    /\ UNCHANGED <<inputVars, round, main_results, interrupted, ekVars, vmVars>>

\* except KeyboardInterrupt: print('Exit prematurely')
MainExcept ==
    /\ pc = "main_except"
    /\ exc' = "None"
    /\ pc' = "main_finally"
    /\ UNCHANGED <<inputVars, out, mainVars, pend, interrupted, ekVars, vmVars>>

\* finally: args.out.close(); then `return 0`, unless an exception is
\* still propagating
MainFinally ==
    /\ pc = "main_finally"
    /\ out' = Close(out)
    /\ pc' = IF exc = "None" THEN "main_return" ELSE "main_raised"
    /\ UNCHANGED <<inputVars, mainVars, exc, pend, interrupted, ekVars, vmVars>>

\* ---- class VM ----
Cur == vmlog[Len(vmlog)]

NewVM == [proc |-> "running", sess |-> "none", conn |-> "Launching",
          quit |-> FALSE, exits |-> 0]

\* variant of LoopAgain: the loop test never sees the stored session
LoopAgainAlways(handle) == TRUE

\* variant of LoopAgain: the poll loop is skipped
LoopAgainNever(handle) == FALSE

\* while self.ssh is None
LoopAgain(handle) == handle = "None"

\* variant of Exhausted: the budget test is off by one (c < 0)
ExhaustedLate(n) == n < 0

\* if c == 0: raise e
Exhausted(n) == n = 0

\* variant of Terminate: the process is left running
TerminateSkipped(p) == p

\* self.process.terminate()
Terminate(p) == "terminated"

\* VM.__init__: popen the hypervisor, self.ssh = None
VMInit ==
    /\ pc = "vm_init"
    /\ \E ok \in BOOLEAN :
         IF ok
         THEN /\ vmlog' = Append(vmlog, NewVM)
              /\ ssh' = "None"
              /\ c' = 0
              /\ attempts' = 0
              /\ lastErr' = "None"
              /\ NoRaise("enter")
         ELSE /\ UNCHANGED vmVars
              /\ Raise("CommandNotFound")
    /\ UNCHANGED <<inputVars, out, mainVars, interrupted, ekVars>>

\* VM.__enter__: c = 5, first test of the while loop
Enter ==
    /\ pc = "enter"
    /\ c' = MaxAttempts
    /\ vmlog' = [vmlog EXCEPT ![Len(vmlog)].conn = "Connecting"]
    /\ NoRaise(IF LoopAgain(ssh) THEN "enter_sleep" ELSE "scp_to")
    /\ UNCHANGED <<inputVars, out, mainVars, interrupted, ekVars, ssh, attempts, lastErr>>

\* time.sleep(1)
EnterSleep ==
    /\ pc = "enter_sleep"
    /\ NoRaise("enter_dial")
    /\ UNCHANGED <<inputVars, out, mainVars, interrupted, ekVars, vmVars>>

\* self.ssh = SshMachine(...), with its except clause and the loop test
EnterDial ==
    /\ pc = "enter_dial"
    /\ attempts' = attempts + 1
    /\ \E r \in {"ok", "OSError"} \cup CommsErrors :
         CASE r = "ok" ->
                /\ ssh' = "session"
                /\ vmlog' = [vmlog EXCEPT ![Len(vmlog)].sess = "open",
                                          ![Len(vmlog)].conn = "Ready"]
                /\ UNCHANGED <<c, lastErr>>
                /\ NoRaise(IF LoopAgain(ssh') THEN "enter_sleep" ELSE "scp_to")
           [] r \in CommsErrors ->
                /\ c' = c - 1
                /\ lastErr' = r
                /\ ssh' = ssh
                /\ IF Exhausted(c')
                   THEN /\ vmlog' = [vmlog EXCEPT ![Len(vmlog)].conn = "Unreachable"]
                        /\ Raise(r)
                   ELSE /\ vmlog' = vmlog
                        /\ NoRaise(IF LoopAgain(ssh') THEN "enter_sleep" ELSE "scp_to")
           [] OTHER ->
                /\ UNCHANGED <<ssh, c, lastErr, vmlog>>
                /\ Raise(r)
    /\ UNCHANGED <<inputVars, out, mainVars, interrupted, ekVars>>

\* variant of ClosesSession: __exit__ goes on without closing the session
ClosesSessionNever(handle) == FALSE

\* if self.ssh is not None
ClosesSession(handle) == handle # "None"

\* VM.__exit__, statement by statement
ExitClose ==
    /\ pc = "exit_close"
    /\ IF ClosesSession(ssh)
       THEN /\ vmlog' = [vmlog EXCEPT ![Len(vmlog)].exits = @ + 1,
                                      ![Len(vmlog)].sess = "closed"]
            /\ pc' = "exit_clear"
       ELSE /\ vmlog' = [vmlog EXCEPT ![Len(vmlog)].exits = @ + 1]
            /\ pc' = "exit_quit"
    /\ UNCHANGED <<inputVars, out, mainVars, exc, pend, interrupted, ekVars,
                   ssh, c, attempts, lastErr>>

ExitClear ==
    /\ pc = "exit_clear"
    /\ ssh' = "None"
    /\ pc' = "exit_quit"
    /\ UNCHANGED <<inputVars, out, mainVars, exc, pend, interrupted, ekVars,
                   c, attempts, lastErr, vmlog>>

\* self.process.stdin.write(QEMU_EXIT_CMD)
ExitQuit ==
    /\ pc = "exit_quit"
    /\ vmlog' = [vmlog EXCEPT ![Len(vmlog)].quit = TRUE]
    /\ pc' = "exit_terminate"
    /\ UNCHANGED <<inputVars, out, mainVars, exc, pend, interrupted, ekVars,
                   ssh, c, attempts, lastErr>>

ExitTerminate ==
    /\ pc = "exit_terminate"
    /\ vmlog' = [vmlog EXCEPT ![Len(vmlog)].proc = Terminate(@)]
    /\ pc' = "exit_sleep"
    /\ UNCHANGED <<inputVars, out, mainVars, exc, pend, interrupted, ekVars,
                   ssh, c, attempts, lastErr>>

\* variant of Propagates: __exit__ returns True and swallows the exception
PropagatesNever(e) == FALSE

\* __exit__ ends without a return statement (returns None): an exception
\* raised in the with body is re-raised once __exit__ is over
Propagates(e) == e # "None"

\* time.sleep(0.5), then the with statement is left
ExitSleep ==
    /\ pc = "exit_sleep"
    /\ IF Propagates(pend)
       THEN /\ pc' = Handler(pend)
            /\ exc' = pend
       ELSE /\ pc' = "stats"
            /\ exc' = exc
    /\ pend' = "None"
    /\ UNCHANGED <<inputVars, out, mainVars, interrupted, ekVars, vmVars>>

\* ---- evaluate_kernel ----
\* work_cmd(): the run-th invocation of the workload in this VM
Run(kind) == [kind |-> kind, line |-> Output(workload, Len(runlog) + 1)]

\* variant of AfterWarmup: the warmup output is recorded as a sample
AfterWarmupKept(res, line) == Append(res, ParseInt(Strip(line)).val)

\* for _ in range(WARMUP_RUNS): work_cmd()   -- the output is dropped
AfterWarmup(res, line) == res

\* results.append(int(work_cmd().strip()))
AfterMeasure(res, line) == Append(res, ParseInt(Strip(line)).val)

\* variant of MoreRepetitions: one repetition too many
MoreRepetitionsOneExtra(n) == n <= REPETITIONS_PER_ROUND

\* for i in range(REPETITIONS_PER_ROUND)
MoreRepetitions(n) == n < REPETITIONS_PER_ROUND

\* vm.scp_to(workload_path, ON_VM_WORKLOAD_PATH)
ScpTo ==
    /\ pc = "scp_to"
    /\ IF ssh = "None"
       THEN Raise("AssertionError")
       ELSE \E ok \in BOOLEAN :
              IF ok THEN NoRaise("warmup") ELSE Raise("ProcessExecutionError")
    /\ UNCHANGED <<inputVars, out, mainVars, interrupted, ekVars, vmVars>>

Warmup ==
    /\ pc = "warmup"
    /\ IF w < WARMUP_RUNS
       THEN \E ok \in BOOLEAN :
              IF ok
              THEN /\ runlog' = Append(runlog, Run("warmup"))
                   /\ results' = AfterWarmup(results, Run("warmup").line)
                   /\ w' = w + 1
                   /\ NoRaise("warmup")
              ELSE /\ UNCHANGED <<runlog, results, w>>
                   /\ Raise("ProcessExecutionError")
       ELSE /\ UNCHANGED <<runlog, results, w>>
            /\ NoRaise("measure")
    /\ UNCHANGED <<inputVars, out, mainVars, interrupted, i, stats, vmVars>>

Measure ==
    /\ pc = "measure"
    /\ IF MoreRepetitions(i)
       THEN \E ok \in BOOLEAN :
              IF ok
              THEN /\ runlog' = Append(runlog, Run("measured"))
                   /\ IF ParseInt(Strip(Run("measured").line)).ok
                      THEN /\ results' = AfterMeasure(results, Run("measured").line)
                           /\ i' = i + 1
                           /\ NoRaise("measure")
                      ELSE /\ UNCHANGED <<results, i>>
                           /\ Raise("ValueError")
              ELSE /\ UNCHANGED <<runlog, results, i>>
                   /\ Raise("ProcessExecutionError")
       ELSE /\ UNCHANGED <<runlog, results, i>>
            /\ NoRaise("delete")
    /\ UNCHANGED <<inputVars, out, mainVars, interrupted, w, stats, vmVars>>

\* vm.ssh.path(ON_VM_WORKLOAD_PATH).delete(), then the with block ends
Delete ==
    /\ pc = "delete"
    /\ \E ok \in BOOLEAN :
         IF ok THEN NoRaise("exit_close") ELSE Raise("ProcessExecutionError")
    /\ UNCHANGED <<inputVars, out, mainVars, interrupted, ekVars, vmVars>>

\* statistics.mean(results), statistics.stdev(results); return results
Stats ==
    /\ pc = "stats"
    /\ IF Len(results) < 2
       THEN /\ UNCHANGED <<stats, main_results>>
            /\ Raise("StatisticsError")
       ELSE /\ stats' = results
            /\ main_results' = results
            /\ NoRaise("write_results")
    /\ UNCHANGED <<inputVars, out, round, kidx, interrupted, results, w, i,
                   runlog, vmVars>>

\* ---- the user ----
\* one KeyboardInterrupt, raised in whatever statement of main's try block
\* is running
Interrupt ==
    /\ ~interrupted
    /\ pc \in MainTry \cup EkPre \cup WithBody \cup ExitSteps \cup EkPost
    /\ interrupted' = TRUE
    /\ Raise("KeyboardInterrupt")
    /\ UNCHANGED <<inputVars, out, mainVars, ekVars, vmVars>>

Next ==
    \/ InitOutputFile
    \/ RoundLoop
    \/ KernelLoop
    \/ Call
    \/ VMInit
    \/ Enter
    \/ EnterSleep
    \/ EnterDial
    \/ ScpTo
    \/ Warmup
    \/ Measure
    \/ Delete
    \/ ExitClose
    \/ ExitClear
    \/ ExitQuit
    \/ ExitTerminate
    \/ ExitSleep
    \/ Stats
    \/ WriteResults
    \/ MainExcept
    \/ MainFinally
    \/ Interrupt

Spec == Init /\ [][Next]_vars

TypeOK ==
    /\ pc \in MainTry \cup EkPre \cup WithBody \cup ExitSteps \cup EkPost
              \cup Final \cup {"main_except", "main_finally"}
    /\ round \in 0..ROUNDS
    /\ c \in 0..MaxAttempts
    /\ ssh \in {"None", "session"}

\* ---- properties ----
Ending == {"main_except", "main_finally"} \cup Final

VMs == 1..Len(vmlog)

\* the data rows of the output: every line after the header
DataRows == {k \in 1..Len(out.lines) : k >= 2}

\* errors the spec calls per-kernel: connection, upload, command, parse
PerKernelErrors == CommsErrors \cup {"ProcessExecutionError", "ValueError"}

\* C1 (as claimed): when main is over, every VM that was constructed has had
\* VM.__exit__ run exactly once and its hypervisor process terminated.
C1_TeardownExactlyOnce ==
    pc \in Final =>
        \A k \in VMs : vmlog[k].exits = 1 /\ vmlog[k].proc = "terminated"

\* C2 (as claimed): when main returns after a KeyboardInterrupt, no
\* hypervisor process is left running and no session is left open.
C2_InterruptTearsDown ==
    (pc = "main_return" /\ interrupted) =>
        \A k \in VMs : vmlog[k].proc # "running" /\ vmlog[k].sess # "open"

\* C3 (as claimed): a per-kernel fatal error never ends the run: main does
\* not leave its loop with such an error propagating.
C3_ErrorContained ==
    exc \in PerKernelErrors => pc \notin Ending

\* C4: VM.__enter__ dials at most MaxAttempts times for one VM; it polls only
\* while fewer than MaxAttempts attempts have been made; and a VM left
\* Unreachable has had exactly MaxAttempts attempts, has no session, and the
\* exception raised is the last communication error caught.
C4_BoundedRetries ==
    /\ attempts <= MaxAttempts
    /\ pc \in {"enter_sleep", "enter_dial"} =>
           attempts < MaxAttempts /\ ssh = "None" /\ c = MaxAttempts - attempts
    /\ (vmlog # <<>> /\ Cur.conn = "Unreachable") =>
           /\ attempts = MaxAttempts
           /\ ssh = "None"
           /\ Cur.sess = "none"
           /\ lastErr \in CommsErrors
           /\ exc = lastErr
           /\ pc \in {"main_finally", "main_raised"}

C4_Witness ==
    vmlog # <<>> /\ Cur.conn = "Unreachable" /\ pc = "main_raised"
    /\ attempts = MaxAttempts

\* C5: once a connection attempt has succeeded (on attempt 1..MaxAttempts)
\* the VM is Ready with its session stored, the poll loop is over for that
\* VM, and no communication error is raised for it.
C5_SuccessStopsPolling ==
    (vmlog # <<>> /\ Cur.conn = "Ready") =>
        /\ attempts \in 1..MaxAttempts
        /\ pc \notin {"enter", "enter_sleep", "enter_dial"}
        /\ pc \in WithBody => ssh = "session" /\ Cur.sess = "open"
        /\ exc \notin CommsErrors

C5_Witness ==
    vmlog # <<>> /\ Cur.conn = "Ready" /\ attempts = MaxAttempts
    /\ pc = "scp_to" /\ lastErr \in CommsErrors

\* C6 (as claimed): every data row holds exactly REPETITIONS_PER_ROUND
\* samples and every sample is a non-negative integer.
C6_RowsNonNegative ==
    \A k \in DataRows :
        LET f == Fields(out.lines[k])
        IN  /\ Len(f) = 2 + REPETITIONS_PER_ROUND
            /\ \A j \in 1..REPETITIONS_PER_ROUND : AllDigits(f[2 + j])

\* C6 (amended): every data row holds exactly REPETITIONS_PER_ROUND samples,
\* and the j-th sample is the integer that int() reads from the line the
\* workload printed on the j-th measured repetition, sign included.
C6_RowsAreParsedSamples ==
    \A k \in DataRows :
        LET f == Fields(out.lines[k])
        IN  /\ Len(f) = 2 + REPETITIONS_PER_ROUND
            /\ \A j \in 1..REPETITIONS_PER_ROUND :
                 LET written == ParseInt(f[2 + j])
                     printed == ParseInt(Output(workload, WARMUP_RUNS + j))
                 IN  written.ok /\ printed.ok /\ written.val = printed.val

C6_Witness ==
    /\ workload = "negative"
    /\ Len(out.lines) >= 3
    /\ pc = "main_return"

\* C7: warmup output is discarded. The first WARMUP_RUNS invocations of the
\* workload in a VM are the warmup runs and every later one is measured;
\* results holds, in order, the values of the measured invocations only; so
\* do the sequence returned to main and the data given to mean/stdev; and
\* with a workload that prints its invocation number, no warmup number
\* appears in results or in a sample field of a written row.
C7_WarmupDiscarded ==
    /\ \A k \in 1..Len(runlog) :
         runlog[k].kind = IF k <= WARMUP_RUNS THEN "warmup" ELSE "measured"
    /\ results # <<>> => Len(runlog) >= WARMUP_RUNS + Len(results)
    /\ \A j \in 1..Len(results) :
         results[j] = ParseInt(runlog[WARMUP_RUNS + j].line).val
    /\ \A seq \in {main_results, stats} :
         seq # <<>> =>
            /\ Len(seq) = REPETITIONS_PER_ROUND
            /\ \A j \in 1..Len(seq) :
                 seq[j] = ParseInt(Output(workload, WARMUP_RUNS + j)).val
    /\ workload = "counter" =>
            /\ \A j \in 1..Len(results) : results[j] \notin 1..WARMUP_RUNS
            /\ \A k \in DataRows :
                 LET f == Fields(out.lines[k])
                 IN  \A j \in 3..Len(f) :
                        \A n \in 1..WARMUP_RUNS : f[j] # IntToStr(n)

C7_Witness ==
    /\ workload = "counter"
    /\ pc = "write_results"
    /\ Len(runlog) = WARMUP_RUNS + REPETITIONS_PER_ROUND
    /\ stats = results
    /\ Len(out.lines) >= 2

\* a data row for the (kernel, round) main is at
RowOfCurrentPair ==
    \E k \in DataRows :
        LET f == Fields(out.lines[k])
        IN  f[1] = kernels[kidx] /\ f[2] = IntToStr(round)

C9_InterruptCaught ==
    /\ exc = "KeyboardInterrupt" => pc = "main_except"
    /\ (interrupted /\ pc \in Final) =>
          pc = "main_return" /\ exc = "None" /\ out.closes = 1

C9_Witness ==
    /\ interrupted
    /\ pc = "main_return"
    /\ out.closes = 1
    /\ vmlog # <<>>
    /\ Cur.exits = 1

\* C10: at most one hypervisor process is running at any time, and every
\* VM but the latest has been through VM.__exit__ once, with its session
\* closed and its process terminated.
C10_Sequential ==
    /\ Cardinality({k \in VMs : vmlog[k].proc = "running"}) <= 1
    /\ \A k \in VMs :
         k < Len(vmlog) =>
            /\ vmlog[k].proc = "terminated"
            /\ vmlog[k].exits = 1
            /\ vmlog[k].sess = "closed"
            /\ vmlog[k].quit

C10_Witness ==
    /\ Len(vmlog) >= 2
    /\ Cur.proc = "running"
    /\ pc = "measure"
    /\ round >= 1

\* C11: within one VM's lifetime the session exists only after a successful
\* connection attempt; the quit sequence is written only after the session
\* was closed and the handle cleared, and the process is terminated only
\* after the quit sequence was written; once VM.__exit__ has begun no
\* statement of the with body runs and no workload command is issued.
C11_SessionBeforeShutdown ==
    /\ [](\A k \in VMs :
            /\ vmlog[k].sess # "none" => vmlog[k].conn = "Ready"
            /\ vmlog[k].quit => (vmlog[k].sess = "closed" /\ vmlog[k].exits = 1)
            /\ vmlog[k].proc = "terminated" => vmlog[k].quit)
    /\ [](vmlog # <<>> =>
            /\ Cur.sess # "none" => attempts >= 1
            /\ Cur.quit => ssh = "None"
            /\ Cur.exits >= 1 => pc \notin WithBody
            /\ ssh = "session" => Cur.sess # "none")
    /\ [][(vmlog # <<>> /\ Cur.exits >= 1 /\ Len(vmlog') = Len(vmlog))
            => Len(runlog') <= Len(runlog)]_vars

C11_Witness ==
    /\ vmlog # <<>>
    /\ pc = "exit_sleep"
    /\ Cur.sess = "closed"
    /\ Cur.quit
    /\ Cur.proc = "terminated"
    /\ Len(runlog) >= 1

\* C12: every statement of the with body (upload, workload command, remote
\* delete) runs on a VM that is Ready with its session handle set and the
\* session open, before VM.__exit__ has begun; the assertion of scp_to
\* never fails.
C12_SessionOpsOnlyWhenReady ==
    /\ pc \in WithBody =>
          /\ vmlog # <<>>
          /\ Cur.conn = "Ready"
          /\ ssh = "session"
          /\ Cur.sess = "open"
          /\ Cur.exits = 0
          /\ Cur.proc = "running"
    /\ exc # "AssertionError"
    /\ pend # "AssertionError"

C12_Witness ==
    /\ pc = "delete"
    /\ ssh = "session"
    /\ Len(runlog) = WARMUP_RUNS + REPETITIONS_PER_ROUND
    /\ Len(vmlog) >= 2

C14_DeleteBestEffort ==
    (pc = "exit_close" /\ i = REPETITIONS_PER_ROUND /\ ~interrupted)
        => pend = "None"

\* exceptions that mean an evaluation failed
EvaluationErrors ==
    PerKernelErrors \cup {"CommandNotFound", "OSError", "StatisticsError",
                          "AssertionError"}

\* the lines of a complete run: the header, then one row per round and
\* kernel, round-major, kernels in the order given
ExpectedRowCount == ROUNDS * Len(kernels)

RowPair(n) ==
    [rnd |-> (n - 1) \div Len(kernels), k |-> ((n - 1) % Len(kernels)) + 1]

\* C15 (as claimed): when main is over without an interrupt and without a
\* failed evaluation, the output is the header followed by ROUNDS x
\* len(kernels) rows, round-major, each with the kernel's path, its round
\* and as many fields as the header.
C15_CompleteOutput ==
    (pc \in Final /\ ~interrupted /\ exc \notin EvaluationErrors) =>
        /\ Len(out.lines) = 1 + ExpectedRowCount
        /\ out.lines[1] = HeaderLine
        /\ \A n \in 1..ExpectedRowCount :
             LET f == Fields(out.lines[n + 1])
             IN  /\ Len(f) = Len(Fields(HeaderLine))
                 /\ Len(f) = 2 + REPETITIONS_PER_ROUND
                 /\ f[1] = kernels[RowPair(n).k]
                 /\ f[2] = IntToStr(RowPair(n).rnd)

\* C16: every row written has been flushed, in every state; in particular
\* while a hypervisor process is running no earlier row is still buffered.
C16_RowsFlushed ==
    /\ \A k \in DataRows : k <= out.flushed
    /\ (vmlog # <<>> /\ Cur.proc = "running" /\ Len(out.lines) >= 2) =>
          out.flushed = Len(out.lines)

C16_Witness ==
    /\ vmlog # <<>>
    /\ Cur.proc = "running"
    /\ pc = "measure"
    /\ Len(out.lines) >= 2
    /\ out.flushed = Len(out.lines)
    /\ out.closes = 0

\* C17 (as claimed): the per-kernel call of main's loop reaches
\* evaluate_kernel: main never fails on the call itself.
C17_CallReachesEvaluate ==
    exc # "NameError"

C19_FileClosedOnce ==
    /\ [](pc \in Final => out.closes = 1)
    /\ [](pc \notin Final => out.closes = 0)
    /\ [](vmlog # <<>> => out.lines # <<>>)
    /\ [](out.lines # <<>> =>
            /\ out.lines[1] = HeaderLine
            /\ \A k \in DataRows : out.lines[k] # HeaderLine)
    /\ [][out.closes >= 1 => out'.lines = out.lines]_vars

C19_Witness ==
    /\ pc = "main_raised"
    /\ out.closes = 1
    /\ vmlog # <<>>
    /\ Len(out.lines) >= 2

====
